---------------------------- MODULE Spec2Model ----------------------------
(***************************************************************************)
(* Model of BuildUtils/FindPackages.py: PackageFinder and its FreeType     *)
(* specialisation (FindFreetype / FreetypeFinder).  One finder is built    *)
(* per call of FindFreetype; startSearch runs searchThread either on the   *)
(* calling thread (no timeout) or on a one-thread pool (timeout given).    *)
(* Spec is that search.  Three further specifications share the module:    *)
(* PrinterSpec (ColorPrinter.py: the print queue and its thread),          *)
(* ProgressSpec (SconsUtils.py: ProgressCounter) and JobsSpec              *)
(* (SconsUtils.py: SetBuildJobs).  Each leaves the state of the others at  *)
(* its idle value.                                                         *)
(***************************************************************************)
EXTENDS Integers, Sequences, FiniteSets, TLC

(***************************************************************************)
(* Bounds of the exploration.                                              *)
(***************************************************************************)
MaxUserPaths == 2
MaxCalls == 2
MaxPrinters == 2
MaxItems == 2
MaxBuilds == 2
MaxCallbacks == 3
MaxArgs == 2
MaxJobs == 2

None == "None"

Range(s) == {s[i] : i \in 1..Len(s)}

(***************************************************************************)
(* The file system walked by os.walk and the verdicts of the external      *)
(* tools.  Directories are path strings; a directory holds a set of file   *)
(* names and a set of sub-directories.                                     *)
(***************************************************************************)
Files(d) ==
    CASE d = "/opt/a" -> {"ft2build.h", "libfreetype.so"}
      [] d = "/opt/b/include" -> {"ft2build.h", "freetype.h"}
      [] d = "/opt/b/lib" -> {"libfreetype.so"}
      [] d = "/opt/c/inc1" -> {"ft2build.h"}
      [] d = "/opt/c/inc2" -> {"ft2build.h"}
      [] d = "/opt/c/lib" -> {"libfreetype.so"}
      [] d = "/usr/include/freetype2" -> {"ft2build.h", "freetype.h"}
      [] d = "/usr/lib/x86_64-linux-gnu" -> {"libfreetype.so"}
      [] d = "/usr/local/include" -> {"ft2build.h"}
      [] OTHER -> {}

SubDirs(d) ==
    CASE d = "/opt/b" -> {"/opt/b/include", "/opt/b/lib"}
      [] d = "/opt/c" -> {"/opt/c/inc1", "/opt/c/inc2", "/opt/c/lib"}
      [] d = "/usr/include" -> {"/usr/include/freetype2"}
      [] OTHER -> {}

\* "/usr/local/lib" does not exist on this machine: os.walk yields nothing.
Missing == {"/usr/local/lib"}

\* every directory os.walk(top) yields: top and all that lies below it
Tree(top) == IF top \in Missing THEN {} ELSE {top} \cup SubDirs(top)

\* the installation a directory belongs to
InstallOf(d) ==
    CASE d \in {"/opt/a"} -> "a"
      [] d \in {"/opt/b", "/opt/b/include", "/opt/b/lib"} -> "b"
      [] d \in {"/opt/c", "/opt/c/inc1", "/opt/c/inc2", "/opt/c/lib"} -> "c"
      [] OTHER -> "usr"

\* the installation in /opt/a is complete: whatever finds it, links
Sound == {"a"}

\* contents of freetype.h: the text that the three version macros contribute
VersionMacros(d) ==
    CASE d = "/opt/b/include" -> <<"2", ".10", ".4">>
      [] d = "/usr/include/freetype2" -> <<"2", ".12", ".1">>
      [] OTHER -> <<>>

\* directories the linker searches without any -L flag
DefaultLibDirs == {"/usr/lib/x86_64-linux-gnu"}

\* flags printed by `pkg-config freetype2 --cflags --libs`
PkgConfigIncludes == <<"/usr/include/freetype2">>
PkgConfigLibs == <<"freetype">>

(***************************************************************************)
(* SCons construction environments.                                        *)
(***************************************************************************)
Environment == [CPPPATH |-> <<>>, LIBPATH |-> <<>>, LIBS |-> <<>>, LIB |-> <<>>]

\* the environment of the calling SConstruct before FindFreetype is called
CallerEnv ==
    [CPPPATH |-> <<"/proj/src">>, LIBPATH |-> <<>>, LIBS |-> <<>>, LIB |-> <<>>]

\* a candidate source: one directory, or an (include dir, lib dir) pair
Single(d) == [kind |-> "dir", inc |-> d, lib |-> d]
Pair(i, l) == [kind |-> "list", inc |-> i, lib |-> l]

UserCandidates == {Single("/opt/a"), Single("/opt/b"), Single("/opt/c")}

SeqsUpTo(S, n) == UNION {[1..k -> S] : k \in 0..n}


(***************************************************************************)
(* State.                                                                  *)
(***************************************************************************)
VARIABLES
    working,      \* installations against which the test program links
    pkgConfig,    \* "absent": no pkg-config on PATH; "unknown": it does not
                  \* know the package; "ok": it prints the flags
    osEnvironDir, \* os.environ.get('FREETYPE_DIR')
    envGiven,     \* the env argument is not None
    required,     \* the required argument
    timeoutSet,   \* the timeout argument is truthy
    paths,        \* the list object passed as paths; self.user_paths is it
    sys_paths,    \* self.sys_paths
    heap,         \* the environment objects: self.env and the current clone
    version,      \* self.version
    timedout,     \* self.timedout['timedout']
    frame,        \* locals of searchThread / search / tryPackageConfig
    result,       \* what searchThread returned (or raised)
    cpc,          \* where the thread that called FindFreetype is
    outcome,      \* what startSearch handed to its caller
    calls,        \* FindFreetype calls made so far
    elapsed,      \* the timeout has run out since apply_async
    overran,      \* searchThread was still running when it ran out
    printQueue,   \* ColorPrinter.printQueue, everything ever put
    envAtCall,    \* the caller's environment when FindFreetype was called
    attempts,     \* candidate sources taken up by this call, in order
    \* ColorPrinter.py: the class attributes and the threads that use them
    threadStarted,   \* ColorPrinter.threadStarted
    terminateThread, \* ColorPrinter.terminateThread
    printThread,     \* ColorPrinter.printThread: the Thread last assigned
    stdout,          \* what sys.stdout.write has written, in order
    printThreads,    \* the threads running printQueueThread: pc and printItem
    callers,         \* the threads that build and use ColorPrinter objects
    constructed,     \* ColorPrinter() calls made so far
    cleanUp,         \* cleanUpPrinter: where it is, what was put before/after
    \* SconsUtils.py: ProgressCounter
    progress_builders, \* self.progress_builders: the ProgressBuild objects
    callbacks,         \* the calls of the ProgressCounter object so far
    \* SconsUtils.py: SetBuildJobs
    argv,            \* sys.argv
    num_jobs,        \* the SCons option num_jobs
    NUM_CPUS,        \* get_num_cpus()
    NUM_JOBS_SET,    \* the local NUM_JOBS_SET
    jobs             \* where SetBuildJobs is: pc and position in sys.argv

vars == <<working, pkgConfig, osEnvironDir, envGiven, required, timeoutSet,
          paths, sys_paths, heap, version, timedout, frame, result, cpc,
          outcome, calls, elapsed, overran, printQueue, envAtCall,
          attempts, threadStarted, terminateThread, printThread, stdout,
          printThreads, callers, constructed, cleanUp, progress_builders,
          callbacks, argv, num_jobs, NUM_CPUS, NUM_JOBS_SET, jobs>>

\* the state of ColorPrinter.py besides the queue
printerVars == <<threadStarted, terminateThread, printThread, stdout,
                 printThreads, callers, constructed, cleanUp>>

\* the state of a ProgressCounter besides its printer
progressVars == <<progress_builders, callbacks>>

\* the state of SetBuildJobs
jobsVars == <<argv, num_jobs, NUM_CPUS, NUM_JOBS_SET, jobs>>

\* what a search neither reads nor writes
others == <<printerVars, progressVars, jobsVars>>

world == <<working, pkgConfig, osEnvironDir, envGiven, required, timeoutSet,
           others>>

\* what no step of a running search changes
fixed == <<world, envAtCall>>

user_paths == paths

IdleFrame ==
    [pc |-> "idle", phase |-> "user", idx |-> 1, test_env |-> "test",
     found_headers |-> None, found_libs |-> None, found_version |-> None,
     walkTodo |-> {}, root |-> None, files |-> {}, hdrIdx |-> 1]

\* the threads of the build that construct printers and print
Threads == {"main", "job"}

\* Thread objects that ColorPrinter.__init__ can create
PrintThreadIds == 1..MaxPrinters

\* ColorPrinter.printThread = None (line 18)
NoThread == 0

\* ColorPrinter.py as the class statement leaves it (lines 15-19), no
\* ColorPrinter object built yet
PrinterIdle ==
    /\ threadStarted = FALSE
    /\ terminateThread = FALSE
    /\ printThread = NoThread
    /\ stdout = <<>>
    /\ printThreads = [i \in PrintThreadIds |->
                         [pc |-> "unborn", printItem |-> None]]
    /\ callers = [t \in Threads |-> [pc |-> "idle", has |-> FALSE, n |-> 0]]
    /\ constructed = 0
    /\ cleanUp = [pc |-> "no", before |-> {}, after |-> {}]

\* ProgressCounter.__init__ (line 250-252): no build registered
ProgressIdle ==
    /\ progress_builders = <<>>
    /\ callbacks = <<>>

\* SetBuildJobs has not been called: `scons` with no argument, one CPU
JobsIdle ==
    /\ argv = <<>>
    /\ num_jobs = 1
    /\ NUM_CPUS = 1
    /\ NUM_JOBS_SET = FALSE
    /\ jobs = [pc |-> "idle", i |-> 1]

Init ==
    /\ PrinterIdle
    /\ ProgressIdle
    /\ JobsIdle
    /\ working \in SUBSET {"b", "c", "usr"}
    /\ pkgConfig \in {"absent", "unknown", "ok"}
    /\ osEnvironDir \in {None, "/opt/b"}
    /\ envGiven \in BOOLEAN
    /\ required \in BOOLEAN
    /\ timeoutSet \in BOOLEAN
    /\ paths \in SeqsUpTo(UserCandidates, MaxUserPaths)
    /\ sys_paths = <<>>
    /\ heap = [self |-> CallerEnv, test |-> Environment]
    /\ version = <<>>
    /\ timedout = FALSE
    /\ frame = IdleFrame
    /\ result = None
    /\ cpc = "idle"
    /\ outcome = "pending"
    /\ calls = 0
    /\ elapsed = FALSE
    /\ overran = FALSE
    /\ printQueue = <<>>
    /\ envAtCall = CallerEnv
    /\ attempts = <<>>

(***************************************************************************)
(* PackageFinder helpers.                                                  *)
(***************************************************************************)
\* Environment.Append(key=vals) on the object ref
EnvAppend(h, ref, key, vals) == [h EXCEPT ![ref][key] = @ \o vals]

getTestEnv_reused(h) == [ref |-> "test", heap |-> h]

getTestEnv_aliased(h) ==
    [ref |-> IF envGiven THEN "self" ELSE "test",
     heap |-> [h EXCEPT !.test = Environment]]

\* getTestEnv: a fresh Environment, or a clone of self.env; yields the new
\* heap and the reference held by test_env
getTestEnv(h) ==
    [ref |-> "test",
     heap |-> [h EXCEPT !.test = IF envGiven THEN h.self ELSE Environment]]

\* addPlatformPaths on linux, amd64, not cross compiling
addPlatformPaths(sp) ==
    sp \o <<Single("/proj/.."),
            Pair("/usr/include", "/usr/lib64"),
            Pair("/usr/include", "/usr/lib/x86_64-linux-gnu"),
            Pair("/usr/local/include", "/usr/local/lib"),
            Pair("/usr/include", "/usr/lib")>>

\* FreetypeFinder.checkHeader / checkLib / checkVersion: the root they
\* return, None when the file does not match
checkHeader(file, root) == IF file = "ft2build.h" THEN root ELSE None

checkLib(file, root) == IF file = "libfreetype.so" THEN root ELSE None

checkVersion(file, root) == IF file = "freetype.h" THEN root ELSE None

\* conf.TryLink of the FreeType test program against environment e
TryLink(e) ==
    /\ "freetype" \in Range(e.LIBS)
    /\ \E h \in Range(e.CPPPATH) :
           "ft2build.h" \in Files(h) /\ InstallOf(h) \in working \cup Sound
    /\ \E l \in Range(e.LIBPATH) \cup DefaultLibDirs :
           "libfreetype.so" \in Files(l) /\ InstallOf(l) \in working \cup Sound

\* os.walk(top, topdown=False): a directory is yielded after its sub-dirs
NextDirs(todo) == {d \in todo : SubDirs(d) \cap todo = {}}


(***************************************************************************)
(* FindFreetype, FreetypeFinder.__init__ and startSearch.                  *)
(***************************************************************************)
\* FindFreetype(env, paths, required, timeout): build the finder
FindFreetype ==
    /\ cpc \in {"idle", "returned"}
    /\ calls < MaxCalls
    /\ calls' = calls + 1
    /\ sys_paths' = addPlatformPaths(<<>>)
    /\ paths' = IF osEnvironDir # None
                THEN Append(paths, Single(osEnvironDir))
                ELSE paths
    /\ version' = <<>>
    /\ timedout' = FALSE
    /\ frame' = IdleFrame
    /\ result' = None
    /\ outcome' = "pending"
    /\ attempts' = <<>>
    /\ elapsed' = FALSE
    /\ overran' = FALSE
    /\ cpc' = "startSearch"
    /\ envAtCall' = heap.self
    /\ UNCHANGED <<world, heap, printQueue>>

\* startSearch without timeout: searchThread runs on the calling thread
StartSearchSync ==
    /\ cpc = "startSearch"
    /\ ~timeoutSet
    /\ cpc' = "searching"
    /\ frame' = [frame EXCEPT !.pc = "start"]
    /\ UNCHANGED <<fixed, paths, sys_paths, heap, version, timedout, result,
                   outcome, calls, elapsed, overran, printQueue, attempts>>

\* startSearch with timeout: pool.apply_async(self.searchThread)
StartSearchAsync ==
    /\ cpc = "startSearch"
    /\ timeoutSet
    /\ cpc' = "get"
    /\ frame' = [frame EXCEPT !.pc = "start"]
    /\ UNCHANGED <<fixed, paths, sys_paths, heap, version, timedout, result,
                   outcome, calls, elapsed, overran, printQueue, attempts>>

\* async_result.get(timeout): the name timeout is bound neither in
\* startSearch nor in the module, so evaluating the argument raises
\* NameError, which is not the TimeoutError the handler catches.  The
\* handler (lines 162-171), the only place that sets self.timedout, is
\* therefore never entered, and the pool thread runs on unobserved.
AsyncGet ==
    /\ cpc = "get"
    /\ cpc' = "raised"
    /\ outcome' = "NameError"
    /\ UNCHANGED <<fixed, paths, sys_paths, heap, version, timedout, frame,
                   result, calls, elapsed, overran, printQueue, attempts>>

\* the timeout given to FindFreetype runs out
TimeoutElapses ==
    /\ timeoutSet
    /\ cpc \in {"get", "raised"}
    /\ ~elapsed
    /\ elapsed' = TRUE
    /\ overran' = (frame.pc \notin {"done", "raised"})
    /\ UNCHANGED <<fixed, paths, sys_paths, heap, version, timedout, frame,
                   result, cpc, outcome, calls, printQueue, attempts>>

(***************************************************************************)
(* searchThread, search and tryPackageConfig, one step at a time.          *)
(***************************************************************************)
CurPaths == IF frame.phase = "user" THEN user_paths ELSE sys_paths

Cand == CurPaths[frame.idx]

\* entry of search(paths): the locals before the for loop
EnterSearch(f, h, ph) ==
    [f EXCEPT !.pc = "search", !.phase = ph, !.idx = 1,
              !.test_env = getTestEnv(h).ref,
              !.found_headers = None, !.found_libs = None,
              !.found_version = None,
              !.walkTodo = {}, !.root = None, !.files = {}]

\* the message of searchThread when nothing was found
NotFoundMsg == IF required THEN "Failed to find working" ELSE "Couldn't find"

\* searchThread returns r (an environment reference or None); without a
\* timeout startSearch returns the same value to its caller at once
Return(r, f, h, pq) ==
    /\ frame' = [f EXCEPT !.pc = "done"]
    /\ result' = r
    /\ heap' = h
    /\ printQueue' = pq
    /\ IF timeoutSet
       THEN UNCHANGED <<cpc, outcome>>
       ELSE cpc' = "returned" /\ outcome' = r

Continue_sysBeforePkg(f, h, pq) ==
    CASE f.phase = "user" ->
           /\ frame' = EnterSearch(f, h, "sys")
           /\ heap' = getTestEnv(h).heap
           /\ printQueue' = pq
           /\ UNCHANGED <<result, cpc, outcome>>
      [] f.phase = "sys" ->
           /\ frame' = [f EXCEPT !.pc = "pkg", !.phase = "pkg"]
           /\ heap' = h
           /\ printQueue' = pq
           /\ UNCHANGED <<result, cpc, outcome>>
      [] OTHER -> Return(None, f, h, Append(pq, NotFoundMsg))

\* search(...) or tryPackageConfig() returned None: the rest of searchThread
Continue(f, h, pq) ==
    CASE f.phase = "user" ->
           IF timedout
           THEN Return(None, f, h, pq)
           ELSE /\ frame' = [f EXCEPT !.pc = "pkg", !.phase = "pkg"]
                /\ heap' = h
                /\ printQueue' = pq
                /\ UNCHANGED <<result, cpc, outcome>>
      [] f.phase = "pkg" ->
           IF timedout
           THEN Return(None, f, h, pq)
           ELSE /\ frame' = EnterSearch(f, h, "sys")
                /\ heap' = getTestEnv(h).heap
                /\ printQueue' = pq
                /\ UNCHANGED <<result, cpc, outcome>>
      [] OTHER -> Return(None, f, h, Append(pq, NotFoundMsg))

\* searchThread up to the first search(): line 330-332
SearchThreadStart ==
    /\ frame.pc = "start"
    /\ frame' = EnterSearch(frame, heap, "user")
    /\ heap' = getTestEnv(heap).heap
    /\ printQueue' = Append(printQueue, "Searching for")
    /\ UNCHANGED <<fixed, paths, sys_paths, version, timedout, result, cpc,
                   outcome, calls, elapsed, overran, attempts>>

\* for test_path in paths: the list is exhausted, search returns None
SearchExhausted ==
    /\ frame.pc = "search"
    /\ frame.idx > Len(CurPaths)
    /\ Continue(frame, heap, printQueue)
    /\ UNCHANGED <<fixed, paths, sys_paths, version, timedout, calls,
                   elapsed, overran, attempts>>

\* for test_path in paths: take up the next candidate, start its first walk
LookIn ==
    /\ frame.pc = "search"
    /\ frame.idx <= Len(CurPaths)
    /\ printQueue' = Append(printQueue, "Looking in")
    /\ attempts' = Append(attempts, Cand)
    /\ frame' = [frame EXCEPT
                   !.pc = IF Cand.kind = "list" THEN "walkInc" ELSE "walkDir",
                   !.walkTodo = Tree(Cand.inc), !.root = None, !.files = {}]
    /\ UNCHANGED <<fixed, paths, sys_paths, heap, version, timedout, result,
                   cpc, outcome, calls, elapsed, overran>>


WalkPcs == {"walkInc", "walkLib", "walkDir", "walkVer", "pkgVer"}

\* `-I` directories of `pkg-config --cflags`, then '-I/usr/include'
header_dirs == PkgConfigIncludes \o <<"/usr/include">>

\* os.walk yields the next directory; a directory without files leaves the
\* inner for loop at once and no flag has changed since the last test
OsWalkNext ==
    /\ frame.pc \in WalkPcs
    /\ frame.root = None
    /\ \E d \in NextDirs(frame.walkTodo) :
          frame' = [frame EXCEPT
                      !.walkTodo = @ \ {d},
                      !.root = IF Files(d) = {} THEN None ELSE d,
                      !.files = Files(d)]
    /\ UNCHANGED <<fixed, paths, sys_paths, heap, version, timedout, result,
                   cpc, outcome, calls, elapsed, overran, printQueue,
                   attempts>>

OsWalkEnds_raisesOnMissing ==
    /\ frame.pc \in WalkPcs
    /\ frame.root = None
    /\ frame.walkTodo = {}
    /\ frame' =
         CASE frame.pc = "walkInc" ->
                [frame EXCEPT !.pc = "walkLib", !.walkTodo = Tree(Cand.lib)]
           [] frame.pc \in {"walkLib", "walkDir"} ->
                IF Cand.lib \in Missing
                THEN [frame EXCEPT !.pc = "raised"]
                ELSE [frame EXCEPT !.pc = "check"]
           [] frame.pc = "walkVer" ->
                [frame EXCEPT !.pc = "compile"]
           [] OTHER ->
                IF frame.hdrIdx < Len(header_dirs)
                THEN [frame EXCEPT !.hdrIdx = @ + 1,
                                   !.walkTodo = Tree(header_dirs[frame.hdrIdx + 1])]
                ELSE [frame EXCEPT !.pc = "pkgFound"]
    /\ UNCHANGED <<fixed, paths, sys_paths, heap, version, timedout, result,
                   cpc, outcome, calls, elapsed, overran, printQueue,
                   attempts>>

\* os.walk is exhausted: the statement after the for loop
OsWalkEnds ==
    /\ frame.pc \in WalkPcs
    /\ frame.root = None
    /\ frame.walkTodo = {}
    /\ frame' =
         CASE frame.pc = "walkInc" ->
                [frame EXCEPT !.pc = "walkLib", !.walkTodo = Tree(Cand.lib)]
           [] frame.pc \in {"walkLib", "walkDir"} ->
                [frame EXCEPT !.pc = "check"]
           [] frame.pc = "walkVer" ->
                [frame EXCEPT !.pc = "compile"]
           [] OTHER ->
                IF frame.hdrIdx < Len(header_dirs)
                THEN [frame EXCEPT !.hdrIdx = @ + 1,
                                   !.walkTodo = Tree(header_dirs[frame.hdrIdx + 1])]
                ELSE [frame EXCEPT !.pc = "pkgFound"]
    /\ UNCHANGED <<fixed, paths, sys_paths, heap, version, timedout, result,
                   cpc, outcome, calls, elapsed, overran, printQueue,
                   attempts>>

\* the rest of the inner loop after a file that did not break it
NextFile(f, name) ==
    [f EXCEPT !.files = @ \ {name},
              !.root = IF f.files = {name} THEN None ELSE @]

\* include directory of a [include, lib] candidate: lines 262-271
VisitHeaderFile ==
    /\ frame.pc = "walkInc"
    /\ frame.root # None
    /\ \E name \in frame.files :
         IF timedout
         THEN /\ Continue(frame, heap, printQueue)
         ELSE LET header_dir == checkHeader(name, frame.root) IN
              /\ IF header_dir # None
                 THEN /\ heap' = EnvAppend(heap, frame.test_env, "CPPPATH",
                                           <<header_dir>>)
                      /\ frame' = [frame EXCEPT
                                     !.found_headers = header_dir,
                                     !.pc = "walkLib",
                                     !.walkTodo = Tree(Cand.lib),
                                     !.root = None, !.files = {}]
                 ELSE /\ heap' = heap
                      /\ frame' = NextFile(frame, name)
              /\ UNCHANGED <<result, cpc, outcome, printQueue>>
    /\ UNCHANGED <<fixed, paths, sys_paths, version, timedout, calls,
                   elapsed, overran, attempts>>

\* lib directory of a [include, lib] candidate: lines 273-282
VisitLibFile ==
    /\ frame.pc = "walkLib"
    /\ frame.root # None
    /\ \E name \in frame.files :
         IF timedout
         THEN /\ Continue(frame, heap, printQueue)
         ELSE LET lib_dir == checkLib(name, frame.root) IN
              /\ IF lib_dir # None
                 THEN /\ heap' = EnvAppend(heap, frame.test_env, "LIBPATH",
                                           <<lib_dir>>)
                      /\ frame' = [frame EXCEPT
                                     !.found_libs = lib_dir,
                                     !.pc = "check",
                                     !.root = None, !.files = {}]
                 ELSE /\ heap' = heap
                      /\ frame' = NextFile(frame, name)
              /\ UNCHANGED <<result, cpc, outcome, printQueue>>
    /\ UNCHANGED <<fixed, paths, sys_paths, version, timedout, calls,
                   elapsed, overran, attempts>>

\* after the inner loop of the single-directory walk: line 297-298
AfterInner(f) ==
    IF f.found_headers # None /\ f.found_libs # None
    THEN [f EXCEPT !.pc = "check", !.root = None, !.files = {}]
    ELSE [f EXCEPT !.root = None, !.files = {}]

\* a file of a single-directory candidate: lines 285-298
VisitFile ==
    /\ frame.pc = "walkDir"
    /\ frame.root # None
    /\ \E name \in frame.files :
         IF timedout
         THEN /\ Continue(frame, heap, printQueue)
         ELSE LET header_dir == checkHeader(name, frame.root)
                  lib_dir == checkLib(name, frame.root)
              IN
              /\ IF header_dir # None
                 THEN /\ heap' = EnvAppend(heap, frame.test_env, "CPPPATH",
                                           <<header_dir>>)
                      /\ frame' = AfterInner(
                                    [frame EXCEPT !.found_headers = header_dir])
                 ELSE IF lib_dir # None
                 THEN /\ heap' = EnvAppend(heap, frame.test_env, "LIBPATH",
                                           <<lib_dir>>)
                      /\ frame' = AfterInner(
                                    [frame EXCEPT !.found_libs = lib_dir])
                 ELSE /\ heap' = heap
                      /\ frame' = IF frame.files = {name}
                                  THEN AfterInner(frame)
                                  ELSE NextFile(frame, name)
              /\ UNCHANGED <<result, cpc, outcome, printQueue>>
    /\ UNCHANGED <<fixed, paths, sys_paths, version, timedout, calls,
                   elapsed, overran, attempts>>


NextCandidate_ends(f, h) ==
    [f EXCEPT !.pc = "search",
              !.idx = 1 + Len(IF f.phase = "user" THEN user_paths ELSE sys_paths),
              !.test_env = getTestEnv(h).ref,
              !.found_libs = None, !.found_headers = None,
              !.walkTodo = {}, !.root = None, !.files = {}]

\* the next iteration of `for test_path in paths` with a fresh test_env and
\* found_libs, found_headers cleared: lines 318-320 and 323-325
NextCandidate(f, h) ==
    [f EXCEPT !.pc = "search", !.idx = @ + 1,
              !.test_env = getTestEnv(h).ref,
              !.found_libs = None, !.found_headers = None,
              !.walkTodo = {}, !.root = None, !.files = {}]

\* `if found_headers and found_libs:` after the walks: line 300, 322-326
CheckFound ==
    /\ frame.pc = "check"
    /\ IF frame.found_headers # None /\ frame.found_libs # None
       THEN /\ frame' = [frame EXCEPT !.pc = "walkVer",
                                      !.walkTodo = Tree(frame.found_headers),
                                      !.root = None, !.files = {}]
            /\ heap' = heap
       ELSE /\ frame' = NextCandidate(frame, heap)
            /\ heap' = getTestEnv(heap).heap
    /\ UNCHANGED <<fixed, paths, sys_paths, version, timedout, result, cpc,
                   outcome, calls, elapsed, overran, printQueue, attempts>>

\* a file below found_headers is offered to checkVersion: lines 301-310
VisitVersionFile ==
    /\ frame.pc = "walkVer"
    /\ frame.root # None
    /\ \E name \in frame.files :
         IF timedout
         THEN /\ Continue(frame, heap, printQueue)
              /\ version' = version
         ELSE LET version_file == checkVersion(name, frame.root) IN
              /\ IF version_file # None
                 THEN /\ version' = version \o VersionMacros(frame.root)
                      /\ frame' = [frame EXCEPT
                                     !.found_version = version_file,
                                     !.pc = "compile",
                                     !.root = None, !.files = {}]
                 ELSE /\ version' = version
                      /\ frame' = NextFile(frame, name)
              /\ UNCHANGED <<heap, result, cpc, outcome, printQueue>>
    /\ UNCHANGED <<fixed, paths, sys_paths, timedout, calls, elapsed,
                   overran, attempts>>

\* FreetypeFinder.compileTest(env): env.Append(LIBS=['freetype']), TryLink
compileTest(h, ref) == EnvAppend(h, ref, "LIBS", <<"freetype">>)

foundPackage_noInclude(h, ref, found_libs, found_headers) ==
    IF envGiven
    THEN [ref |-> "self",
          heap |-> EnvAppend(EnvAppend(h,
                      "self", "LIBPATH", <<found_libs>>),
                      "self", "LIB", <<"freetype">>)]
    ELSE [ref |-> ref, heap |-> h]

\* FreetypeFinder.foundPackage: the heap after it and the reference returned
foundPackage(h, ref, found_libs, found_headers) ==
    IF envGiven
    THEN [ref |-> "self",
          heap |-> EnvAppend(EnvAppend(EnvAppend(h,
                      "self", "LIBPATH", <<found_libs>>),
                      "self", "CPPPATH", <<found_headers>>),
                      "self", "LIB", <<"freetype">>)]
    ELSE [ref |-> ref, heap |-> h]

\* compileTest on the candidate and what follows it: lines 312-321
CompileCandidate ==
    /\ frame.pc = "compile"
    /\ LET h1 == compileTest(heap, frame.test_env) IN
       IF TryLink(h1[frame.test_env])
       THEN LET fp == foundPackage(h1, frame.test_env, frame.found_libs,
                                   frame.found_headers)
            IN Return(fp.ref, frame, fp.heap, Append(printQueue, "Found"))
       ELSE /\ frame' = [NextCandidate(frame, h1) EXCEPT !.found_version = None]
            /\ heap' = getTestEnv(h1).heap
            /\ printQueue' = Append(printQueue, "Candidate failed")
            /\ UNCHANGED <<result, cpc, outcome>>
    /\ UNCHANGED <<fixed, paths, sys_paths, version, timedout, calls,
                   elapsed, overran, attempts>>

(***************************************************************************)
(* tryPackageConfig.                                                       *)
(***************************************************************************)
\* SCons ParseConfig of the pkg-config output on the object ref
ParseConfig(h, ref) ==
    EnvAppend(EnvAppend(h, ref, "CPPPATH", PkgConfigIncludes),
              ref, "LIBS", PkgConfigLibs)

\* line 184-188: is pkg-config on PATH; clone; test_env.ParseConfig, which
\* raises OSError when the command fails
TryPackageConfig ==
    /\ frame.pc = "pkg"
    /\ attempts' = Append(attempts, [kind |-> "pkg-config", inc |-> None, lib |-> None])
    /\ CASE pkgConfig = "absent" ->
              Continue(frame, heap, printQueue)
         [] pkgConfig = "unknown" ->
              /\ frame' = [frame EXCEPT !.pc = "raised",
                                        !.test_env = getTestEnv(heap).ref]
              /\ heap' = getTestEnv(heap).heap
              /\ result' = "OSError"
              /\ printQueue' = printQueue
              /\ IF timeoutSet
                 THEN UNCHANGED <<cpc, outcome>>
                 ELSE cpc' = "raised" /\ outcome' = "OSError"
         [] OTHER ->
              /\ frame' = [frame EXCEPT !.pc = "pkgCompile",
                                        !.test_env = getTestEnv(heap).ref]
              /\ heap' = ParseConfig(getTestEnv(heap).heap,
                                     getTestEnv(heap).ref)
              /\ UNCHANGED <<result, cpc, outcome, printQueue>>
    /\ UNCHANGED <<fixed, paths, sys_paths, version, timedout, calls,
                   elapsed, overran>>

PkgCompile_noVersionWalk ==
    /\ frame.pc = "pkgCompile"
    /\ LET h1 == compileTest(heap, frame.test_env) IN
       IF TryLink(h1[frame.test_env])
       THEN /\ frame' = [frame EXCEPT !.pc = "pkgFound", !.hdrIdx = 1,
                                      !.found_version = None,
                                      !.walkTodo = {},
                                      !.root = None, !.files = {}]
            /\ heap' = h1
            /\ UNCHANGED <<result, cpc, outcome, printQueue>>
       ELSE Continue(frame, h1, printQueue)
    /\ UNCHANGED <<fixed, paths, sys_paths, version, timedout, calls,
                   elapsed, overran, attempts>>

\* line 189-193: compileTest on the pkg-config flags
PkgCompile ==
    /\ frame.pc = "pkgCompile"
    /\ LET h1 == compileTest(heap, frame.test_env) IN
       IF TryLink(h1[frame.test_env])
       THEN /\ frame' = [frame EXCEPT !.pc = "pkgVer", !.hdrIdx = 1,
                                      !.found_version = None,
                                      !.walkTodo = Tree(header_dirs[1]),
                                      !.root = None, !.files = {}]
            /\ heap' = h1
            /\ UNCHANGED <<result, cpc, outcome, printQueue>>
       ELSE Continue(frame, h1, printQueue)
    /\ UNCHANGED <<fixed, paths, sys_paths, version, timedout, calls,
                   elapsed, overran, attempts>>

\* line 198-207: a file below a header directory goes to checkVersion
PkgVisitVersionFile ==
    /\ frame.pc = "pkgVer"
    /\ frame.root # None
    /\ \E name \in frame.files :
         IF timedout
         THEN /\ Continue(frame, heap, printQueue)
              /\ version' = version
         ELSE LET version_file == checkVersion(name, frame.root) IN
              /\ IF version_file # None
                 THEN /\ version' = version \o VersionMacros(frame.root)
                      /\ frame' = [frame EXCEPT
                                     !.found_version = version_file,
                                     !.pc = "pkgFound",
                                     !.root = None, !.files = {}]
                 ELSE /\ version' = version
                      /\ frame' = NextFile(frame, name)
              /\ UNCHANGED <<heap, result, cpc, outcome, printQueue>>
    /\ UNCHANGED <<fixed, paths, sys_paths, timedout, calls, elapsed,
                   overran, attempts>>

\* line 211-217: report, self.env.ParseConfig, return test_env
PkgFound ==
    /\ frame.pc = "pkgFound"
    /\ Return(frame.test_env, frame,
              IF envGiven THEN ParseConfig(heap, "self") ELSE heap,
              Append(printQueue,
                     IF frame.found_version # None
                     THEN "Found" ELSE "Found with unknown version"))
    /\ UNCHANGED <<fixed, paths, sys_paths, version, timedout, calls,
                   elapsed, overran, attempts>>

Next ==
    \/ FindFreetype
    \/ StartSearchSync
    \/ StartSearchAsync
    \/ AsyncGet
    \/ TimeoutElapses
    \/ SearchThreadStart
    \/ SearchExhausted
    \/ LookIn
    \/ OsWalkNext
    \/ OsWalkEnds
    \/ VisitHeaderFile
    \/ VisitLibFile
    \/ VisitFile
    \/ CheckFound
    \/ VisitVersionFile
    \/ CompileCandidate
    \/ TryPackageConfig
    \/ PkgCompile
    \/ PkgVisitVersionFile
    \/ PkgFound

Spec == Init /\ [][Next]_vars

TypeOK ==
    /\ cpc \in {"idle", "startSearch", "searching", "get", "returned", "raised"}
    /\ outcome \in {"pending", None, "self", "test", "NameError", "OSError"}
    /\ calls \in 0..MaxCalls


(***************************************************************************)
(* Properties.                                                             *)
(***************************************************************************)
IsPrefix(s, t) == Len(s) <= Len(t) /\ s = SubSeq(t, 1, Len(s))

PkgAttempt == [kind |-> "pkg-config", inc |-> None, lib |-> None]

Found == {"self", "test"}

\* the include and library directories a candidate source can contribute
DirsOf(c) == Tree(c.inc) \cup Tree(c.lib)

\* the directories of e's path lists that base's path lists do not hold
Added(e, base) ==
    (Range(e.CPPPATH) \cup Range(e.LIBPATH))
        \ (Range(base.CPPPATH) \cup Range(base.LIBPATH))

\* the environment object searchThread returned
ResultEnv == heap[result]

\* C1: the candidates taken up by one searchThread run are, in order, the
\* entries of user_paths, then the pkg-config query, then the entries of
\* sys_paths: the log of attempts is always a prefix of that sequence, and
\* the whole of it when the search ends without a match.
C1_PhaseOrder ==
    /\ IsPrefix(attempts, user_paths \o <<PkgAttempt>> \o sys_paths)
    /\ (frame.pc = "done" /\ result = None /\ ~timedout)
         => attempts = user_paths \o <<PkgAttempt>> \o sys_paths

\* a run that went through a user path, pkg-config and a system path
C1_Witness ==
    /\ Len(user_paths) > 0
    /\ Len(attempts) > Len(user_paths) + 1
    /\ frame.pc = "done"

\* C2: when the compileTest of a user path's candidate succeeds, the very
\* step returns Found with that candidate's roots in the returned
\* environment, and a search that ended Found in the user phase has taken
\* up nothing but user paths.
C2_UserPathWins ==
    /\ [][(/\ frame.pc = "compile"
           /\ frame.phase = "user"
           /\ TryLink(compileTest(heap, frame.test_env)[frame.test_env])
           /\ frame' # frame)
          => (/\ frame'.pc = "done"
              /\ result' \in Found
              /\ frame.found_headers \in Tree(Cand.inc)
              /\ frame.found_libs \in Tree(Cand.lib)
              /\ frame.found_headers \in Range(heap'[result'].CPPPATH)
              /\ frame.found_libs \in Range(heap'[result'].LIBPATH)
              /\ Added(heap'[result'], envAtCall) \subseteq DirsOf(Cand)
              /\ attempts' = SubSeq(user_paths, 1, frame.idx))]_vars
    /\ [](frame.pc = "done" /\ frame.phase = "user" /\ result \in Found
            => attempts = SubSeq(user_paths, 1, frame.idx))

\* Found from a user path although a system path would verify as well
C2_Witness ==
    /\ frame.pc = "done"
    /\ frame.phase = "user"
    /\ result \in Found
    /\ "usr" \in working
    /\ pkgConfig = "ok"

\* C3: the environment handed to a candidate's compileTest, and the one
\* returned as Found, hold no directory besides those of the caller's
\* environment and those of the candidate itself.
C3_OnlyOwnPaths ==
    /\ frame.pc = "compile"
         => Added(heap[frame.test_env], envAtCall) \subseteq DirsOf(Cand)
    /\ (frame.pc = "done" /\ frame.phase \in {"user", "sys"} /\ result \in Found)
         => Added(ResultEnv, envAtCall) \subseteq DirsOf(Cand)

\* Found at a candidate after an earlier candidate failed its compileTest
C3_Witness ==
    /\ calls = 1
    /\ frame.pc = "done"
    /\ frame.phase \in {"user", "sys"}
    /\ result \in Found
    /\ "Candidate failed" \in Range(printQueue)

\* C8: as long as nothing verified the caller's environment is what it was
\* at the call, also in a second call; every candidate starts on a clone
\* that is a fresh copy of it.
C8_NoLeakOnFailure ==
    /\ (frame.pc # "done" \/ result = None) => heap.self = envAtCall
    /\ (frame.pc = "done" /\ result = None /\ calls = 2
          /\ "Found" \notin Range(printQueue)
          /\ "Found with unknown version" \notin Range(printQueue))
         => heap.self = CallerEnv
    /\ frame.pc = "search"
         => /\ frame.test_env = "test"
            /\ heap.test = IF envGiven THEN heap.self ELSE Environment

\* the second of two searches in which candidates failed and nothing verified
C8_Witness ==
    /\ calls = 2
    /\ frame.pc = "done"
    /\ result = None
    /\ envGiven
    /\ "Found" \notin Range(printQueue)
    /\ "Candidate failed" \in Range(printQueue)


\* the thread that called FindFreetype has left startSearch
CallerLeft == cpc \in {"returned", "raised"}

\* the messages of searchThread and search that report a disposition
Dispositions ==
    {"Found", "Found with unknown version", "Couldn't find",
     "Failed to find working"}

\* C4: once the timeout has run out on a search that was still running,
\* startSearch has not raised, and what it returns is the timed-out outcome
\* (None after the "Timedout after" message).
C4_ReturnsTimedOutAtDeadline ==
    (timeoutSet /\ overran)
      => /\ cpc # "raised"
         /\ cpc = "returned"
              => outcome = None /\ "Timedout after" \in Range(printQueue)

\* C5: with a timeout, when searchThread finished before the timeout ran
\* out, startSearch hands its caller what searchThread returned, which is
\* what startSearch without timeout returns.
C5_SameAsUnbounded ==
    (timeoutSet /\ frame.pc = "done" /\ ~overran /\ CallerLeft)
      => cpc = "returned" /\ outcome = result

\* C6: when the timeout ran out on a running search, the search neither
\* returns nor reports Found or not-found, and the caller is not handed
\* Found.
C6_ExactlyTimedOut ==
    (timeoutSet /\ overran)
      => /\ result \notin Found
         /\ Range(printQueue) \cap Dispositions = {}
         /\ outcome \notin Found

\* C7: when the timeout ran out on a running search, the caller's
\* environment holds what it held when FindFreetype was called.
C7_NothingKeptOnTimeout ==
    (timeoutSet /\ overran /\ CallerLeft) => heap.self = envAtCall

\* C9: a single-directory candidate whose tree holds a header and a library
\* leaves its walk with both roots found, and a search of /opt/a alone, where
\* both files lie in /opt/a, returns Found with /opt/a as include and
\* library path.
C9_SameDirectoryFound ==
    /\ (/\ frame.pc = "check"
        /\ Cand.kind = "dir"
        /\ \E d \in Tree(Cand.inc) : "ft2build.h" \in Files(d)
        /\ \E d \in Tree(Cand.inc) : "libfreetype.so" \in Files(d))
         => frame.found_headers # None /\ frame.found_libs # None
    /\ (frame.pc = "done" /\ user_paths = <<Single("/opt/a")>>)
         => /\ result \in Found
            /\ "/opt/a" \in Range(ResultEnv.CPPPATH)
            /\ "/opt/a" \in Range(ResultEnv.LIBPATH)

\* C10: within one candidate a root once recorded stays, and no further
\* directory is appended to the path list it was appended to.
C10_FirstMatchWins ==
    [][(/\ frame.pc \in {"walkInc", "walkLib", "walkDir"}
        /\ frame'.pc \in {"walkInc", "walkLib", "walkDir", "check"})
       => /\ frame.found_headers # None
               => /\ frame'.found_headers = frame.found_headers
                  /\ heap'[frame.test_env].CPPPATH = heap[frame.test_env].CPPPATH
          /\ frame.found_libs # None
               => /\ frame'.found_libs = frame.found_libs
                  /\ heap'[frame.test_env].LIBPATH = heap[frame.test_env].LIBPATH]_vars

(***************************************************************************)
(* Version, pkg-config and failure handling.                               *)
(***************************************************************************)
\* C11: a candidate found without a version file is returned as Found and
\* the version of the finder is then empty.
C11_FoundWithAbsentVersion ==
    (/\ frame.pc = "done"
     /\ frame.phase \in {"user", "sys"}
     /\ result \in Found
     /\ frame.found_version = None)
      => version = <<>>

\* C12: tryPackageConfig never raises: with pkg-config absent, not knowing
\* the package, or failing the compileTest, searchThread goes on to the
\* system paths.
C12_PkgConfigFallsThrough ==
    [][(frame.pc \in {"pkg", "pkgCompile"} /\ frame' # frame)
       => /\ frame'.pc # "raised"
          /\ (\/ pkgConfig \in {"absent", "unknown"}
              \/ (frame.pc = "pkgCompile"
                  /\ ~TryLink(compileTest(heap, frame.test_env)[frame.test_env])))
               => frame'.pc = "search" /\ frame'.phase = "sys"]_vars

\* C13: a compileTest that fails takes the search to the next candidate of
\* the same list with nothing returned or raised, and a list that is
\* exhausted hands over to the following phase.
C13_CompileFailureContinues ==
    /\ [][(/\ frame.pc = "compile"
           /\ ~TryLink(compileTest(heap, frame.test_env)[frame.test_env])
           /\ frame' # frame)
          => /\ frame'.pc = "search"
             /\ frame'.phase = frame.phase
             /\ frame'.idx = frame.idx + 1
             /\ <<result, outcome, cpc>>' = <<result, outcome, cpc>>
             /\ heap'.self = heap.self]_vars
    /\ [][(/\ frame.pc = "search"
           /\ frame.phase = "user"
           /\ frame.idx > Len(user_paths)
           /\ frame' # frame)
          => /\ frame'.pc = "pkg"
             /\ <<result, outcome, cpc>>' = <<result, outcome, cpc>>]_vars
    /\ [][(/\ frame.pc = "pkgCompile"
           /\ ~TryLink(compileTest(heap, frame.test_env)[frame.test_env])
           /\ frame' # frame)
          => /\ frame'.pc = "search"
             /\ frame'.phase = "sys"
             /\ <<result, outcome, cpc>>' = <<result, outcome, cpc>>
             /\ heap'.self = heap.self]_vars

\* after a failed compileTest the next candidate of the list was taken up
\* and, that list exhausted, the phases after it
C13_Witness ==
    /\ "Candidate failed" \in Range(printQueue)
    /\ calls = 1
    /\ frame.phase = "sys"
    /\ Len(user_paths) = 2
    /\ Len(attempts) > Len(user_paths) + 1
    /\ attempts[1] = user_paths[1]
    /\ attempts[2] = user_paths[2]
    /\ printQueue[3] = "Candidate failed"


\* C14: without a timeout, a search in which no candidate source verified
\* hands the not-found outcome (None) to the caller of startSearch as a
\* return value, never as an exception.
C14_NotFoundIsReturned ==
    (~timeoutSet /\ CallerLeft /\ result \notin Found)
        => /\ cpc = "returned"
           /\ outcome = None


\* C15: with required set, startSearch neither raises nor aborts when the
\* search timed out or verified nothing: the caller of a required package
\* always gets a return value in those two cases.
C15_RequiredNeverRaises ==
    (/\ required
     /\ CallerLeft
     /\ \/ overran
        \/ frame.pc \in {"done", "raised"} /\ result \notin Found)
        => cpc = "returned"


(* The per-package override and the caller's paths list. *)
\* C16: the FREETYPE_DIR override is at the front of user_paths when the
\* search begins, and it is the first candidate the search takes up.
C16_OverrideSearchedFirst ==
    (osEnvironDir # None /\ calls > 0)
        => /\ user_paths[1] = Single(osEnvironDir)
           /\ attempts # <<>> => attempts[1] = Single(osEnvironDir)


\* C17: a Find* call leaves the paths list it was given as it found it, so
\* a later call that is given the same list (or the same default) searches
\* the same user paths as the first.
C17_CallersListUnchanged == [][paths' = paths]_vars


\* C18: a candidate one of whose directories does not exist contributes no
\* match and raises nothing: its walks end in the test of the two flags,
\* the search moves to the next candidate of the same list, and neither the
\* result, nor the caller's outcome, nor the caller's environment changes.
C18_MissingDirYieldsNothing ==
    [][(/\ frame.pc \in {"walkInc", "walkLib", "walkDir", "check"}
        /\ {Cand.inc, Cand.lib} \cap Missing # {}
        /\ frame' # frame)
       => /\ frame'.pc \in {"walkInc", "walkLib", "walkDir", "check", "search"}
          /\ frame'.pc = "search"
               => /\ frame'.idx = frame.idx + 1
                  /\ frame'.phase = frame.phase
          /\ frame.pc = "walkLib" => frame'.found_libs = None
          /\ <<result, outcome, cpc>>' = <<result, outcome, cpc>>
          /\ heap'.self = heap.self]_vars

\* the header of /usr/local/include was found, its library directory was
\* missing, and the search went on to the last system candidate and ended
C18_Witness ==
    /\ frame.pc = "done"
    /\ cpc = "returned"
    /\ outcome = None
    /\ Pair("/usr/local/include", "/usr/local/lib") \in Range(attempts)
    /\ attempts[Len(attempts)] = Pair("/usr/include", "/usr/lib")
    /\ "/usr/local/lib" \in Missing
    /\ "ft2build.h" \in Files("/usr/local/include")


(* Reporting after the deadline; the version of a pkg-config match. *)
\* C19: once the timeout has run out, the worker enqueues no further
\* progress or result message.
C19_SilentAfterDeadline ==
    [][(timeoutSet /\ elapsed /\ printQueue' # printQueue)
       => printQueue'[Len(printQueue')] \notin
            Dispositions \cup {"Looking in", "Candidate failed"}]_vars


\* the directories below the header directories that hold the version header
PkgVersionDirs ==
    {r \in UNION {Tree(header_dirs[i]) : i \in 1..Len(header_dirs)} :
        "freetype.h" \in Files(r)}

\* the positions of the worker inside tryPackageConfig
PkgPcs == {"pkg", "pkgCompile", "pkgVer", "pkgFound"}

C21_VersionOfVerifiedCandidate ==
    (/\ frame.pc = "done"
     /\ result \in Found
     /\ frame.found_version # None)
        => version = VersionMacros(frame.found_version)


\* C22: a search that found the package returns the caller's own
\* environment when one was supplied, holding the found include path,
\* library path and library name, and a cloned test environment only when
\* none was supplied.
C22_CallerEnvReturned ==
    (frame.pc = "done" /\ result \in Found)
        => /\ result = IF envGiven THEN "self" ELSE "test"
           /\ "freetype" \in Range(ResultEnv.LIB) \cup Range(ResultEnv.LIBS)
           /\ frame.phase \in {"user", "sys"}
                => /\ frame.found_headers \in Range(ResultEnv.CPPPATH)
                   /\ frame.found_libs \in Range(ResultEnv.LIBPATH)



(***************************************************************************)
(* ColorPrinter.py: the class-wide print queue, the background thread      *)
(* that writes it to stdout, and the threads that construct printers,      *)
(* put messages and call cleanUpPrinter.  Each step below is one access    *)
(* to a class attribute or to the queue; the threads interleave freely.    *)
(***************************************************************************)
\* everything of FindPackages.py besides the queue
finderVars == <<working, pkgConfig, osEnvironDir, envGiven, required,
                timeoutSet, paths, sys_paths, heap, version, timedout, frame,
                result, cpc, outcome, calls, elapsed, overran, envAtCall,
                attempts>>

\* no FindFreetype call is under way
FinderIdle ==
    /\ working = {}
    /\ pkgConfig = "absent"
    /\ osEnvironDir = None
    /\ envGiven = FALSE
    /\ required = FALSE
    /\ timeoutSet = FALSE
    /\ paths = <<>>
    /\ sys_paths = <<>>
    /\ heap = [self |-> CallerEnv, test |-> Environment]
    /\ version = <<>>
    /\ timedout = FALSE
    /\ frame = IdleFrame
    /\ result = None
    /\ cpc = "idle"
    /\ outcome = "pending"
    /\ calls = 0
    /\ elapsed = FALSE
    /\ overran = FALSE
    /\ envAtCall = CallerEnv
    /\ attempts = <<>>

\* what ColorPrinter.py neither reads nor writes
besidesPrinter == <<finderVars, progressVars, jobsVars>>

PrinterInit ==
    /\ FinderIdle
    /\ ProgressIdle
    /\ JobsIdle
    /\ PrinterIdle
    /\ printQueue = <<>>

\* messages put so far, by all threads
ItemsPut == callers["main"].n + callers["job"].n

\* ColorPrinter.__init__, line 24: `if not ColorPrinter.threadStarted`
ConstructTest(t) ==
    /\ callers[t].pc = "idle"
    /\ constructed < MaxPrinters
    /\ constructed' = constructed + 1
    /\ callers' = [callers EXCEPT ![t] =
                     IF threadStarted
                     THEN [@ EXCEPT !.has = TRUE]
                     ELSE [@ EXCEPT !.pc = "start"]]
    /\ UNCHANGED <<besidesPrinter, printQueue, threadStarted, terminateThread,
                   printThread, stdout, printThreads, cleanUp>>

\* the Thread objects not yet created
Unborn == {i \in PrintThreadIds : printThreads[i].pc = "unborn"}

\* ColorPrinter.__init__, line 25-30: create and start the print thread
ConstructStartThread(t) ==
    /\ callers[t].pc = "start"
    /\ LET new == CHOOSE i \in Unborn : \A j \in Unborn : i <= j IN
       /\ terminateThread' = FALSE
       /\ printThread' = new
       /\ threadStarted' = TRUE
       /\ printThreads' = [printThreads EXCEPT ![new].pc = "sleep"]
    /\ callers' = [callers EXCEPT ![t].pc = "idle", ![t].has = TRUE]
    /\ UNCHANGED <<besidesPrinter, printQueue, stdout, constructed, cleanUp>>

\* PrintItem / InfoPrint / ErrorPrint ...: ColorPrinter.printQueue.put(item)
PrintItem(t) ==
    /\ callers[t].pc = "idle"
    /\ callers[t].has
    /\ ItemsPut < MaxItems
    /\ LET item == [by |-> t, n |-> callers[t].n + 1] IN
       /\ printQueue' = Append(printQueue, item)
       /\ cleanUp' =
            CASE cleanUp.pc = "no" -> [cleanUp EXCEPT !.before = @ \cup {item}]
              [] cleanUp.pc = "returned" ->
                   [cleanUp EXCEPT !.after = @ \cup {item}]
              [] OTHER -> cleanUp
    /\ callers' = [callers EXCEPT ![t].n = @ + 1]
    /\ UNCHANGED <<besidesPrinter, threadStarted, terminateThread, printThread,
                   stdout, printThreads, constructed>>

\* cleanUpPrinter, line 62-63: set the flag; printThread.join() on None
\* raises AttributeError
cleanUpPrinter ==
    /\ callers["main"].pc = "idle"
    /\ cleanUp.pc = "no"
    /\ terminateThread' = TRUE
    /\ IF printThread = NoThread
       THEN /\ cleanUp' = [cleanUp EXCEPT !.pc = "raised"]
            /\ callers' = [callers EXCEPT !["main"].pc = "raised"]
       ELSE /\ cleanUp' = [cleanUp EXCEPT !.pc = "join"]
            /\ callers' = [callers EXCEPT !["main"].pc = "join"]
    /\ UNCHANGED <<besidesPrinter, printQueue, threadStarted, printThread, stdout,
                   printThreads, constructed>>

\* cleanUpPrinter, line 63: join returns once that thread has ended
JoinReturns ==
    /\ callers["main"].pc = "join"
    /\ printThreads[printThread].pc = "exited"
    /\ cleanUp' = [cleanUp EXCEPT !.pc = "returned"]
    /\ callers' = [callers EXCEPT !["main"].pc = "idle"]
    /\ UNCHANGED <<besidesPrinter, printQueue, threadStarted, terminateThread,
                   printThread, stdout, printThreads, constructed>>

\* printQueueThread, line 67-68: sleep, then test `not printQueue.empty()`
TestEmpty(i) ==
    /\ printThreads[i].pc = "sleep"
    /\ printThreads' = [printThreads EXCEPT ![i].pc =
                          IF printQueue = <<>> THEN "flag" ELSE "get"]
    /\ UNCHANGED <<besidesPrinter, printQueue, threadStarted, terminateThread,
                   printThread, stdout, callers, constructed, cleanUp>>

\* printQueueThread, line 70-71: get(block=False); Empty is passed over
QueueGet(i) ==
    /\ printThreads[i].pc = "get"
    /\ IF printQueue = <<>>
       THEN /\ printThreads' = [printThreads EXCEPT ![i].pc = "sleep"]
            /\ printQueue' = printQueue
       ELSE /\ printThreads' = [printThreads EXCEPT
                                  ![i] = [pc |-> "write",
                                          printItem |-> Head(printQueue)]]
            /\ printQueue' = Tail(printQueue)
    /\ UNCHANGED <<besidesPrinter, threadStarted, terminateThread, printThread,
                   stdout, callers, constructed, cleanUp>>

\* printQueueThread, line 72: sys.stdout.write(printItem + os.linesep)
StdoutWrite(i) ==
    /\ printThreads[i].pc = "write"
    /\ stdout' = Append(stdout, printThreads[i].printItem)
    /\ printThreads' = [printThreads EXCEPT
                          ![i] = [pc |-> "sleep", printItem |-> None]]
    /\ UNCHANGED <<besidesPrinter, printQueue, threadStarted, terminateThread,
                   printThread, callers, constructed, cleanUp>>

\* printQueueThread, line 75-76: `if ColorPrinter.terminateThread: break`
TestTerminate(i) ==
    /\ printThreads[i].pc = "flag"
    /\ printThreads' = [printThreads EXCEPT ![i].pc =
                          IF terminateThread THEN "exited" ELSE "sleep"]
    /\ UNCHANGED <<besidesPrinter, printQueue, threadStarted, terminateThread,
                   printThread, stdout, callers, constructed, cleanUp>>

PrinterNext ==
    \/ \E t \in Threads : ConstructTest(t)
    \/ \E t \in Threads : ConstructStartThread(t)
    \/ \E t \in Threads : PrintItem(t)
    \/ cleanUpPrinter
    \/ JoinReturns
    \/ \E i \in PrintThreadIds : TestEmpty(i)
    \/ \E i \in PrintThreadIds : QueueGet(i)
    \/ \E i \in PrintThreadIds : StdoutWrite(i)
    \/ \E i \in PrintThreadIds : TestTerminate(i)

PrinterSpec == PrinterInit /\ [][PrinterNext]_vars

\* the print threads that have been started and have not ended
Alive == {i \in PrintThreadIds : printThreads[i].pc \notin {"unborn", "exited"}}

\* C23: every message put before cleanUpPrinter was called has been written
\* to stdout when cleanUpPrinter returns.
C23_FlushedAtCleanUp ==
    cleanUp.pc = "returned" => cleanUp.before \subseteq Range(stdout)


\* C24: no message is written twice, and the messages of one thread appear
\* on stdout in the order in which that thread put them.
C24_OncePerMessageInOrder ==
    \A i, j \in 1..Len(stdout) :
        i < j => /\ stdout[i] # stdout[j]
                 /\ stdout[i].by = stdout[j].by => stdout[i].n < stdout[j].n

\* C25: at most one print thread is ever started.
C25_OnePrintThread ==
    Cardinality({i \in PrintThreadIds : printThreads[i].pc # "unborn"}) <= 1

\* C26: a message put after cleanUpPrinter has returned is eventually
\* written: as long as one is unwritten, a print thread is running or one
\* can still be started by a ColorPrinter() call.
C26_WrittenAfterCleanUp ==
    (cleanUp.pc = "returned" /\ ~(cleanUp.after \subseteq Range(stdout)))
        => \/ Alive # {}
           \/ ~threadStarted
           \/ \E t \in Threads : callers[t].pc = "start"



(***************************************************************************)
(* SconsUtils.py: ProgressCounter.  SCons calls the object with every node *)
(* it takes up; file names are sequences of pieces, the last piece being   *)
(* the extension where there is one.                                       *)
(***************************************************************************)
\* what ProgressCounter neither reads nor writes
besidesProgress == <<finderVars, printerVars, jobsVars>>

\* str.endswith
endswith(s, suffix) ==
    /\ Len(suffix) <= Len(s)
    /\ SubSeq(s, Len(s) - Len(suffix) + 1, Len(s)) = suffix

Extensions == {".c", ".o", ".os", ".obj"}

\* os.path.splitext(name)[0]
splitext(name) ==
    IF name # <<>> /\ name[Len(name)] \in Extensions
    THEN SubSeq(name, 1, Len(name) - 1)
    ELSE name

\* the source lists and targets given to AddBuild, and the nodes SCons
\* passes to the counter; the name of the node libprog ends with both
\* targets
SourceLists == {<< <<"main", ".c">> >>,
                << <<"main", ".c">>, <<"util", ".c">> >>}
Targets == {<<"prog">>, <<"lib", "prog">>}
Nodes == {<<"main", ".o">>, <<"util", ".o">>, <<"lib", "prog">>}

\* node.get_state(): 2 is SCons.Node.executing, 3 is up_to_date
NodeStates == {2, 3}

\* ProgressBuild.__init__
ProgressBuild(sources, target, static) ==
    [count |-> 0,
     progress_sources |->
         [k \in {splitext(sources[i]) : i \in 1..Len(sources)} |-> FALSE],
     target |-> target,
     target_reported |-> FALSE,
     static_lib |-> IF static THEN "-static" ELSE ""]

\* AddBuild(env, sources, target, static=False)
AddBuild(sources, target) ==
    /\ Len(progress_builders) < MaxBuilds
    /\ progress_builders' =
           Append(progress_builders, ProgressBuild(sources, target, FALSE))
    /\ UNCHANGED <<besidesProgress, printQueue, callbacks>>

\* the percent field of the messages that carry no percentage
NoPercent == [num |-> 0, den |-> 0]

\* a message of the counter: the print method, the text, the build it is
\* about (its index in progress_builders) and the call that printed it
Msg(method, text, i, node, percent) ==
    [cb |-> Len(callbacks) + 1, print |-> method, text |-> text,
     build |-> i, node |-> node, percent |-> percent]

\* line 275-277 and 300-302: the announcement of a build not yet counted
Announce(log, build, i, node) ==
    IF build.count = 0
    THEN Append(log, Msg("InfoPrint", "Building", i, node, NoPercent))
    ELSE log

Report_forgets(builds, i) == builds

\* line 281 and 285: build.target_reported = True
Report(builds, i) == [builds EXCEPT ![i].target_reported = TRUE]

\* line 267-285: `for build in self.progress_builders`, the target branch
RECURSIVE TargetLoop(_, _, _, _, _)
TargetLoop(i, builds, log, node, st) ==
    IF i > Len(builds)
    THEN [builds |-> builds, log |-> log]
    ELSE IF endswith(node, builds[i].target)
         THEN LET log1 == Announce(log, builds[i], i, node) IN
              IF ~builds[i].target_reported
              THEN TargetLoop(i + 1, Report(builds, i),
                              Append(log1, Msg("LinkPrint",
                                               IF st = 2 THEN "Linking"
                                                         ELSE "Skipping",
                                               i, node, NoPercent)),
                              node, st)
              ELSE TargetLoop(i + 1, builds, log1, node, st)
         ELSE TargetLoop(i + 1, builds, log, node, st)

Credit_flagNotSet(builds, i, key) ==
    [builds EXCEPT ![i].count = @ + 1]

\* line 296 and 304: the source is marked and counted
Credit(builds, i, key) ==
    [builds EXCEPT ![i].progress_sources[key] = TRUE, ![i].count = @ + 1]

\* line 293-318: `for build in self.progress_builders`, the object branch;
\* a KeyError or a source already marked goes on to the next build, the
\* first unmarked source is credited and breaks the loop
RECURSIVE ObjectLoop(_, _, _, _, _)
ObjectLoop(i, builds, log, node, st) ==
    IF i > Len(builds)
    THEN [builds |-> builds, log |-> log]
    ELSE LET key == splitext(node) IN
         IF /\ key \in DOMAIN builds[i].progress_sources
            /\ ~builds[i].progress_sources[key]
         THEN LET after == Credit(builds, i, key)
                  percent ==
                      [num |-> after[i].count * 100,
                       den |-> Cardinality(DOMAIN builds[i].progress_sources)]
              IN [builds |-> after,
                  log |-> Append(Announce(log, builds[i], i, node),
                                 Msg("CompilePrint",
                                     IF st = 2 THEN "Compiling"
                                               ELSE "Skipping",
                                     i, node, percent))]
         ELSE ObjectLoop(i + 1, builds, log, node, st)

\* ProgressCounter.__call__(node)
Call(node, st) ==
    /\ Len(callbacks) < MaxCallbacks
    /\ callbacks' = Append(callbacks, <<node, st>>)
    /\ LET t == TargetLoop(1, progress_builders, printQueue, node, st)
           o == IF node[Len(node)] \in {".obj", ".o", ".os"}
                THEN ObjectLoop(1, t.builds, t.log, node, st)
                ELSE t
       IN /\ progress_builders' = o.builds
          /\ printQueue' = o.log
    /\ UNCHANGED besidesProgress

ProgressInit ==
    /\ FinderIdle
    /\ PrinterIdle
    /\ JobsIdle
    /\ ProgressIdle
    /\ printQueue = <<>>

ProgressNext ==
    \/ \E sources \in SourceLists, target \in Targets :
           AddBuild(sources, target)
    \/ \E node \in Nodes, st \in NodeStates : Call(node, st)

ProgressSpec == ProgressInit /\ [][ProgressNext]_vars

\* the positions in the queue of the CompilePrint messages of build i
CompilePrints(i) ==
    {p \in 1..Len(printQueue) :
        printQueue[p].print = "CompilePrint" /\ printQueue[p].build = i}

\* C27: the count of a build stays between 0 and the number of its
\* registered sources; every percentage passed to CompilePrint is above 0
\* and at most 100, and the percentages of one build strictly increase.
C27_PercentInRange ==
    \A i \in 1..Len(progress_builders) :
        /\ progress_builders[i].count >= 0
        /\ progress_builders[i].count
             <= Cardinality(DOMAIN progress_builders[i].progress_sources)
        /\ \A p \in CompilePrints(i) :
             /\ printQueue[p].percent.den > 0
             /\ printQueue[p].percent.num > 0
             /\ printQueue[p].percent.num <= 100 * printQueue[p].percent.den
        /\ \A p, q \in CompilePrints(i) :
             p < q => printQueue[p].percent.num * printQueue[q].percent.den
                        < printQueue[q].percent.num * printQueue[p].percent.den

\* a build of two sources, one of them passed twice, reported at 50 and 100
C27_Witness ==
    /\ Len(progress_builders) >= 1
    /\ progress_builders[1].count = 2
    /\ Len(callbacks) = 3
    /\ callbacks[1][1] = callbacks[2][1]
    /\ \E p, q \in CompilePrints(1) :
         /\ p < q
         /\ printQueue[p].percent = [num |-> 100, den |-> 2]
         /\ printQueue[q].percent = [num |-> 200, den |-> 2]


\* the positions in the queue of the LinkPrint messages of build i
LinkPrints(i) ==
    {p \in 1..Len(printQueue) :
        printQueue[p].print = "LinkPrint" /\ printQueue[p].build = i}

\* C28: however often a node is passed, a registered source of a build is
\* reported at most once for that build, one call credits an object node to
\* at most one build, and the target of a build is reported at most once.
C28_ReportedAtMostOnce ==
    /\ \A i \in 1..Len(progress_builders) :
         /\ \A p, q \in CompilePrints(i) :
              p # q => splitext(printQueue[p].node) # splitext(printQueue[q].node)
         /\ Cardinality(LinkPrints(i)) <= 1
    /\ \A i, j \in 1..Len(progress_builders) :
         \A p \in CompilePrints(i), q \in CompilePrints(j) :
              p # q => printQueue[p].cb # printQueue[q].cb

\* main.o was passed twice and then the target node, with two builds that
\* both hold the source main: each call credited one build
C28_Witness ==
    /\ Len(progress_builders) = 2
    /\ Len(callbacks) = 3
    /\ callbacks[1][1] = <<"main", ".o">>
    /\ callbacks[2][1] = <<"main", ".o">>
    /\ callbacks[3][1] = <<"lib", "prog">>
    /\ Cardinality(CompilePrints(1)) = 1
    /\ Cardinality(CompilePrints(2)) = 1
    /\ Cardinality(LinkPrints(1)) = 1

\* the positions in the queue of the 'Building' announcements of build i
Buildings(i) ==
    {p \in 1..Len(printQueue) :
        printQueue[p].text = "Building" /\ printQueue[p].build = i}

\* C29: the 'Building' announcement of a build is emitted once and no more,
\* and it precedes the first Compiling, Linking or Skipping message of that
\* build.
C29_AnnouncedOnce ==
    \A i \in 1..Len(progress_builders) :
        /\ Cardinality(Buildings(i)) <= 1
        /\ \A p \in CompilePrints(i) \cup LinkPrints(i) :
             \E q \in Buildings(i) : q < p



(***************************************************************************)
(* SconsUtils.py: SetBuildJobs.  A command-line argument is the sequence   *)
(* of its characters; the option num_jobs is what SCons made of the        *)
(* command line before the SConstruct calls SetBuildJobs.                  *)
(***************************************************************************)
\* what SetBuildJobs neither reads nor writes
besidesJobs == <<finderVars, printerVars, progressVars>>

Digits == <<"1", "2", "3", "4", "5", "6", "7", "8", "9">>

\* int(s) of a one-digit string; 0 stands for the ValueError of any other
int(s) ==
    IF Len(s) = 1 /\ \E d \in 1..9 : Digits[d] = s[1]
    THEN CHOOSE d \in 1..9 : Digits[d] = s[1]
    ELSE 0

\* str.startswith
startswith(s, prefix) ==
    /\ Len(prefix) <= Len(s)
    /\ SubSeq(s, 1, Len(prefix)) = prefix

dash_j == <<"-", "j">>
dash_jobs == <<"-", "-", "j", "o", "b", "s">>

\* the ways of asking for n jobs, and an option that is not about jobs
JobOptions(n) ==
    { << dash_j \o <<Digits[n]>> >>,
      << dash_j, <<Digits[n]>> >>,
      << dash_jobs, <<Digits[n]>> >>,
      << dash_jobs \o <<"=", Digits[n]>> >> }

OptionGroups ==
    UNION {JobOptions(n) : n \in 1..MaxJobs} \cup { << <<"-", "k">> >> }

RECURSIVE Flatten(_)
Flatten(groups) ==
    IF groups = <<>> THEN <<>> ELSE Head(groups) \o Flatten(Tail(groups))

\* sys.argv: the program name and up to MaxArgs options
CommandLines ==
    {<< <<"s", "c", "o", "n", "s">> >> \o Flatten(g) :
        g \in SeqsUpTo(OptionGroups, MaxArgs)}

\* the job count an argument carries by itself or with the one after it,
\* 0 when it is not a job option
JobsAt(args, i) ==
    CASE args[i] = dash_j \/ args[i] = dash_jobs -> int(args[i + 1])
      [] startswith(args[i], dash_jobs \o <<"=">>) ->
             int(SubSeq(args[i], 8, Len(args[i])))
      [] startswith(args[i], dash_j) -> int(SubSeq(args[i], 3, Len(args[i])))
      [] OTHER -> 0

\* GetOption("num_jobs") as SCons parsed it: the last job option, else 1
GetOption(args) ==
    LET given == {i \in 1..Len(args) : JobsAt(args, i) > 0} IN
    IF given = {} THEN 1
    ELSE JobsAt(args, CHOOSE i \in given : \A k \in given : k <= i)

CpuCounts == {4, 8}

JobsInit ==
    /\ FinderIdle
    /\ PrinterIdle
    /\ ProgressIdle
    /\ printQueue = <<>>
    /\ argv \in CommandLines
    /\ num_jobs = GetOption(argv)
    /\ NUM_CPUS \in CpuCounts
    /\ NUM_JOBS_SET = FALSE
    /\ jobs = [pc |-> "idle", i |-> 1]

\* line 54-55 and 66-68: NUM_JOBS_SET = False; if GetOption("num_jobs") == 1
SetBuildJobs ==
    /\ jobs.pc = "idle"
    /\ IF num_jobs = 1
       THEN /\ NUM_JOBS_SET' = FALSE
            /\ jobs' = [pc |-> "for", i |-> 1]
       ELSE /\ NUM_JOBS_SET' = TRUE
            /\ jobs' = [pc |-> "decide", i |-> 1]
    /\ UNCHANGED <<besidesJobs, printQueue, argv, num_jobs, NUM_CPUS>>

\* sys.argv.index(arg): the first position that holds arg
index(args, arg) ==
    CHOOSE i \in 1..Len(args) :
        args[i] = arg /\ \A k \in 1..(i - 1) : args[k] # arg

\* line 58-65: the body of `for arg in sys.argv`: is this argument a
\* request for one job
AsksForOneJob(args, arg) ==
    /\ startswith(arg, dash_j) \/ startswith(arg, dash_jobs)
    /\ IF arg = dash_j \/ arg = dash_jobs
       THEN int(args[index(args, arg) + 1]) = 1
       ELSE /\ startswith(arg, dash_j)
            /\ int(SubSeq(arg, 3, Len(arg))) = 1

\* line 58: one turn of the loop over sys.argv
ForArg ==
    /\ jobs.pc = "for"
    /\ jobs.i <= Len(argv)
    /\ NUM_JOBS_SET' = (NUM_JOBS_SET \/ AsksForOneJob(argv, argv[jobs.i]))
    /\ jobs' = [jobs EXCEPT !.i = @ + 1]
    /\ UNCHANGED <<besidesJobs, printQueue, argv, num_jobs, NUM_CPUS>>

\* line 58: sys.argv is exhausted
ForEnds ==
    /\ jobs.pc = "for"
    /\ jobs.i > Len(argv)
    /\ jobs' = [jobs EXCEPT !.pc = "decide"]
    /\ UNCHANGED <<besidesJobs, printQueue, argv, num_jobs, NUM_CPUS,
                   NUM_JOBS_SET>>

\* line 72-80: take the number of CPUs unless the user set a job count
SetOption ==
    /\ jobs.pc = "decide"
    /\ num_jobs' = IF NUM_JOBS_SET THEN num_jobs ELSE NUM_CPUS
    /\ printQueue' = Append(printQueue, [text |-> "Building with",
                                         jobs |-> num_jobs'])
    /\ jobs' = [jobs EXCEPT !.pc = "done"]
    /\ UNCHANGED <<besidesJobs, argv, NUM_CPUS, NUM_JOBS_SET>>

JobsNext ==
    \/ SetBuildJobs
    \/ ForArg
    \/ ForEnds
    \/ SetOption

JobsSpec == JobsInit /\ [][JobsNext]_vars

\* the command line gives a job count
JobCountGiven == \E i \in 1..Len(argv) : JobsAt(argv, i) > 0

\* C30: when the command line gives a job count, also a count of 1,
\* SetBuildJobs leaves num_jobs at that count; only when it gives none is
\* num_jobs set to the number of CPUs.
C30_RequestedJobsKept ==
    jobs.pc = "done"
        => num_jobs = IF JobCountGiven THEN GetOption(argv) ELSE NUM_CPUS

=============================================================================
